---- MODULE Spec2Model ----
(***************************************************************************)
(* Model of jobfunnel/backend/scrapers/indeed.py (BaseIndeedScraper and    *)
(* its FR / DE variants): radius quantization, page-count resolution, the  *)
(* pooled fetch of the result pages, and the set() phase of a job record.  *)
(***************************************************************************)
EXTENDS Integers, Sequences, FiniteSets, TLC

VARIABLES
    \* ---- one call of get_job_soups_from_search_result_listings ----
    config,         \* search_config: radius, remoteness, keywords, ...
    phase,          \* position of the calling thread
    resp,           \* what the base search page answered (history)
    pages,          \* value returned by _get_num_search_result_pages
    futures,        \* the futures list: one record per submitted task
    fetches,        \* every URL passed to session.get, in call order
    job_soup_list,  \* the shared list the page tasks extend
    pool,           \* the ThreadPoolExecutor: none / running / shutdown
    error,          \* the exception that left the call, if any
    exc,            \* TRUE when an exception is pending in the try block
    log,            \* messages given to self.logger
    threads,        \* worker threads started so far
    stray,          \* TRUE when a started worker is missing from pool._threads
    \* ---- _quantize_radius, two successive calls ----
    qArg1, qRes1, qArg2, qRes2,
    \* ---- _get_num_search_result_pages, one call per variant ----
    pgVariant, pgNumRes, pgMaxPages, pgResult,
    \* ---- job records and the get / set calls made on them ----
    jobs,           \* record id -> Job attributes, or NoJob
    trace,          \* record id -> the set calls made, in order
    requests,       \* every URL passed to session.get by set(RAW)
    last,           \* the most recent set() call: its input and outcome
    waiting         \* record id -> the set(RAW) call waiting for its answer

scrapeVars == <<config, phase, resp, pages, futures, fetches, job_soup_list,
                pool, error, exc, log, threads, stray>>
radiusVars == <<qArg1, qRes1, qArg2, qRes2>>
pagesVars  == <<pgVariant, pgNumRes, pgMaxPages, pgResult>>
jobVars    == <<jobs, trace, requests, last, waiting>>
vars       == <<scrapeVars, radiusVars, pagesVars, jobVars>>

-----------------------------------------------------------------------------
(* Bounds of the model *)

MaxRadius   == 104      \* radii range over -MinRadius .. MaxRadius
MinRadius   == 3
MaxNumRes   == 160      \* result totals for the page-count function
MaxMaxPages == 4        \* max_pages arguments 0 .. MaxMaxPages
MaxPages    == 3        \* largest page count the site reports to a scrape
MaxFrags    == 1        \* listings on one result page: 0 .. MaxFrags
MaxWorkers  == 2        \* size of the worker pool
MaxCalls    == 4        \* direct set() calls per record

-----------------------------------------------------------------------------
(* Module constants *)

MAX_RESULTS_PER_INDEED_PAGE == 50

\* Imported from jobfunnel.resources; its value is set outside this file,
\* so the pool size is a parameter of the model.
MAX_CPU_WORKERS == MaxWorkers

FULLY_REMOTE_MAGIC_STRING == "&remotejob=032b3046-06a3-4876-8dfd-474eb5e7ed11"
COVID_REMOTE_MAGIC_STRING == "&remotejob=7e3167e4-ccb4-49cb-b761-9bae564a0a63"

Remoteness == {"IN_PERSON", "TEMPORARILY_REMOTE", "PARTIALLY_REMOTE",
               "FULLY_REMOTE", "ANY"}

REMOTENESS_TO_QUERY ==
    [r \in Remoteness |->
        CASE r = "TEMPORARILY_REMOTE" -> COVID_REMOTE_MAGIC_STRING
          [] r = "FULLY_REMOTE"       -> FULLY_REMOTE_MAGIC_STRING
          [] OTHER                    -> ""]

-----------------------------------------------------------------------------
(* _quantize_radius *)

\* variant: every interval closed on the right
quantize_radius_shifted(radius) ==
    IF radius <= 5 THEN 0
    ELSE IF 5 <= radius /\ radius <= 10 THEN 5
    ELSE IF 10 <= radius /\ radius <= 15 THEN 10
    ELSE IF 15 <= radius /\ radius <= 25 THEN 15
    ELSE IF 25 <= radius /\ radius <= 50 THEN 25
    ELSE IF 50 <= radius /\ radius <= 100 THEN 50
    ELSE 100

quantize_radius(radius) ==
    IF radius < 5 THEN 0
    ELSE IF 5 <= radius /\ radius < 10 THEN 5
    ELSE IF 10 <= radius /\ radius < 15 THEN 10
    ELSE IF 15 <= radius /\ radius < 25 THEN 15
    ELSE IF 25 <= radius /\ radius < 50 THEN 25
    ELSE IF 50 <= radius /\ radius < 100 THEN 50
    ELSE 100

-----------------------------------------------------------------------------
(* _get_num_search_result_pages: the arithmetic after the total was parsed *)

\* int(ceil(a / b)) for a >= 0, b > 0
ceil_div(a, b) == -((-a) \div b)

\* variant: integer division in place of ceil
num_pages_floor(num_res, max_pages) ==
    LET number_of_pages == num_res \div MAX_RESULTS_PER_INDEED_PAGE
    IN  IF max_pages = 0 \/ number_of_pages < max_pages
        THEN number_of_pages ELSE max_pages

num_pages(num_res, max_pages) ==
    LET number_of_pages == ceil_div(num_res, MAX_RESULTS_PER_INDEED_PAGE)
    IN  IF max_pages = 0 \/ number_of_pages < max_pages
        THEN number_of_pages ELSE max_pages

num_pages_FR(num_res, max_pages) ==
    LET number_of_pages == ceil_div(num_res, MAX_RESULTS_PER_INDEED_PAGE)
    IN  IF max_pages = 0 \/ number_of_pages < max_pages
        THEN number_of_pages ELSE max_pages

num_pages_DE(num_res, max_pages) ==
    LET number_of_pages == ceil_div(num_res, MAX_RESULTS_PER_INDEED_PAGE)
    IN  IF max_pages = 0 \/ number_of_pages < max_pages
        THEN number_of_pages ELSE max_pages

-----------------------------------------------------------------------------
(* _get_search_url (generic layout) and the URL of one result page *)

RECURSIVE join(_, _)
\* sep.join(words), as the sequence of its pieces
join(sep, words) ==
    IF Len(words) = 0 THEN <<>>
    ELSE IF Len(words) = 1 THEN <<words[1]>>
    ELSE <<words[1], sep>> \o join(sep, Tail(words))

\* str.upper() on the province codes the model uses
upper(s) ==
    CASE s = "on" -> "ON"
      [] s = "ny" -> "NY"
      [] OTHER    -> s

\* int(bool)
bool_int(b) == IF b THEN 1 ELSE 0

\* self.query, set in __init__
query(cfg) == join("+", cfg.keywords)

get_search_url(cfg, method) ==
    IF method = "get" THEN
        [ host   |-> <<"https://www.indeed.", cfg.domain, "/jobs">>,
          q      |-> query(cfg),
          l      |-> join("+", cfg.city) \o <<"%2C+", upper(cfg.province_or_state)>>,
          radius |-> quantize_radius(cfg.radius),
          limit  |-> MAX_RESULTS_PER_INDEED_PAGE,
          filter |-> bool_int(cfg.return_similar_results),
          remote |-> REMOTENESS_TO_QUERY[cfg.remoteness] ]
    ELSE IF method = "post" THEN "NotImplementedError"
    ELSE "ValueError"

\* variant: offsets counted from the second page
page_url_next(search, page) ==
    [ search |-> search, start |-> (page + 1) * MAX_RESULTS_PER_INDEED_PAGE ]

\* f'{search}&start={int(page * self.max_results_per_page)}'
page_url(search, page) ==
    [ search |-> search, start |-> page * MAX_RESULTS_PER_INDEED_PAGE ]

\* range(pages), as the sequence of its values
range(n) == [i \in 1..n |-> i - 1]

\* The listings the site serves at one page URL: find_all(...) on the
\* response, n of them, each one a distinct node of that page.
find_all(url, n) == [i \in 1..n |-> [start |-> url.start, idx |-> i]]

\* variant: the list is replaced, not extended
extend_rebind(list, items) == items

\* list.extend(items): one indivisible step of the interpreter
extend(list, items) == list \o items

\* variant: the message leaves the URL out
no_results_error_bare(search_url) ==
    [type |-> "ValueError", urls |-> <<>>,
     at |-> "_get_num_search_result_pages"]

\* raise ValueError(f"Unable to identify number of pages ... {search_url} ...")
no_results_error(search_url) ==
    [type |-> "ValueError", urls |-> <<search_url>>,
     at |-> "_get_num_search_result_pages"]

-----------------------------------------------------------------------------
(* get_job_soups_from_search_result_listings *)

NoError == [type |-> "none", urls |-> <<>>, at |-> ""]
NoResp  == [kind |-> "none", total |-> 0]

\* Radii, remoteness settings and result totals tried by the scrape
ScrapeRadii      == {12}
ScrapeRemoteness == {"ANY"}
Totals == {n \in 0 .. MaxPages * MAX_RESULTS_PER_INDEED_PAGE :
               n = 0 \/ n % MAX_RESULTS_PER_INDEED_PAGE = 25}

ConfigsOf(domains, radii, remote) ==
    [ domain : domains, keywords : {<<"data", "engineer">>},
      city : {<<"Toronto">>}, province_or_state : {"on"},
      radius : radii, remoteness : remote,
      return_similar_results : {FALSE} ]

Configs == ConfigsOf({"ca"}, ScrapeRadii, ScrapeRemoteness)

search_url == get_search_url(config, "get")

Finished(f) == f.state \in {"done", "failed"}
Busy(f)     == f.state \in {"taken", "fetching", "parsed"}
AllFinished == \A i \in 1..Len(futures) : Finished(futures[i])

\* tasks a worker of the given kind is running
BusyBy(w) == {i \in 1..Len(futures) : Busy(futures[i]) /\ futures[i].by = w}

\* worker threads the pool knows (pool._threads)
Registered == threads - (IF stray THEN 1 ELSE 0)

InitScrape ==
    /\ config \in Configs
    /\ phase = "init"
    /\ resp = NoResp
    /\ pages = 0
    /\ futures = <<>>
    /\ fetches = <<>>
    /\ job_soup_list = <<>>
    /\ pool = "none"
    /\ error = NoError
    /\ exc = FALSE
    /\ log = <<>>
    /\ threads = 0
    /\ stray = FALSE

\* _get_num_search_result_pages: session.get(search_url) itself raises
BaseFetchFails ==
    /\ phase = "init"
    /\ fetches' = Append(fetches, search_url)
    /\ resp' = [kind |-> "fetch_error", total |-> 0]
    /\ error' = [type |-> "ConnectionError", urls |-> <<>>, at |-> "session.get"]
    /\ phase' = "raised"
    /\ UNCHANGED <<config, pages, futures, job_soup_list, pool, exc, log,
                   threads, stray>>

\* _get_num_search_result_pages: no node with id searchCountPages
BaseNoSummary ==
    /\ phase = "init"
    /\ fetches' = Append(fetches, search_url)
    /\ resp' = [kind |-> "no_summary", total |-> 0]
    /\ log' = Append(log, [level |-> "debug", msg |-> "Got Base search results page",
                           arg |-> <<search_url>>])
    /\ error' = no_results_error(search_url)
    /\ phase' = "raised"
    /\ UNCHANGED <<config, pages, futures, job_soup_list, pool, exc, threads,
                   stray>>

\* _get_num_search_result_pages returns; the pool is created (lines 124-133)
BaseSummary ==
    /\ phase = "init"
    /\ \E n \in Totals :
         /\ fetches' = Append(fetches, search_url)
         /\ resp' = [kind |-> "summary", total |-> n]
         /\ pages' = num_pages(n, 0)
         /\ log' = log \o
              << [level |-> "debug", msg |-> "Got Base search results page",
                  arg |-> <<search_url>>],
                 [level |-> "info", msg |-> "Found %d pages of search results",
                  arg |-> <<num_pages(n, 0)>>] >>
    /\ pool' = "running"
    /\ phase' = "dispatch"
    /\ UNCHANGED <<config, futures, job_soup_list, error, exc, threads, stray>>

\* the work item submit() puts in the pool's queue
NewTask == [page |-> range(pages)[Len(futures) + 1], state |-> "queued",
            n |-> 0, by |-> "nobody"]

\* threads.submit(self._get_job_soups_from_search_page, search_url, page, ...)
\* The task is queued; a worker thread is started unless the pool is at
\* its size or a worker is idle.
Submit ==
    /\ phase = "dispatch"
    /\ Len(futures) < Len(range(pages))
    /\ futures' = Append(futures, NewTask)
    /\ \/ /\ threads < MAX_CPU_WORKERS
          /\ threads' = threads + 1
       \/ /\ threads = MAX_CPU_WORKERS \/ threads > Cardinality(BusyBy("pool"))
          /\ threads' = threads
    /\ UNCHANGED <<config, phase, resp, pages, fetches, job_soup_list, pool,
                   error, exc, log, stray>>

\* an exception reaches the calling thread inside threads.submit, after
\* the task was queued: either no worker was started for it, or one was
\* started and submit is left before the pool has recorded the thread
SubmitInterrupted ==
    /\ phase = "dispatch"
    /\ Len(futures) < Len(range(pages))
    /\ futures' = Append(futures, NewTask)
    /\ \/ /\ threads < MAX_CPU_WORKERS
          /\ threads' = threads + 1
          /\ stray' = TRUE
       \/ UNCHANGED <<threads, stray>>
    /\ exc' = TRUE
    /\ phase' = "finally"
    /\ UNCHANGED <<config, resp, pages, fetches, job_soup_list, pool, error,
                   log>>

\* the list of futures is complete; the caller enters wait(futures)
BeginWait ==
    /\ phase = "dispatch"
    /\ Len(futures) = Len(range(pages))
    /\ phase' = "wait"
    /\ UNCHANGED <<config, resp, pages, futures, fetches, job_soup_list, pool,
                   error, exc, log, threads, stray>>

\* a free worker takes the oldest work item from the queue; the workers
\* run on, and empty the queue, while the pool is open or shutdown() has
\* not finished joining them; a worker the pool does not know runs on
\* after shutdown()
TaskTake(i) ==
    /\ futures[i].state = "queued"
    /\ \A j \in 1..(i - 1) : futures[j].state # "queued"
    /\ \E w \in {"pool", "stray"} :
         /\ IF w = "pool"
            THEN /\ pool \in {"running", "closing"}
                 /\ Cardinality(BusyBy("pool")) < Registered
            ELSE stray /\ BusyBy("stray") = {}
         /\ futures' = [futures EXCEPT ![i].state = "taken", ![i].by = w]
    /\ UNCHANGED <<config, phase, resp, pages, fetches, job_soup_list, pool,
                   error, exc, log, threads, stray>>

\* _get_job_soups_from_search_page builds the URL and calls session.get
TaskRequest(i) ==
    /\ futures[i].state = "taken"
    /\ fetches' = Append(fetches, page_url(search_url, futures[i].page))
    /\ futures' = [futures EXCEPT ![i].state = "fetching"]
    /\ UNCHANGED <<config, phase, resp, pages, job_soup_list, pool, error,
                   exc, log, threads, stray>>

\* the response arrives and find_all yields n listings
TaskResponse(i) ==
    /\ futures[i].state = "fetching"
    /\ \E n \in 0..MaxFrags :
         futures' = [futures EXCEPT ![i].state = "parsed", ![i].n = n]
    /\ UNCHANGED <<config, phase, resp, pages, fetches, job_soup_list, pool,
                   error, exc, log, threads, stray>>

\* session.get raises inside the task: the exception is kept in the future
TaskFail(i) ==
    /\ futures[i].state = "fetching"
    /\ futures' = [futures EXCEPT ![i].state = "failed"]
    /\ UNCHANGED <<config, phase, resp, pages, fetches, job_soup_list, pool,
                   error, exc, log, threads, stray>>

\* job_soup_list.extend(...)
TaskExtend(i) ==
    /\ futures[i].state = "parsed"
    /\ job_soup_list' = extend(job_soup_list,
                          find_all(page_url(search_url, futures[i].page),
                                   futures[i].n))
    /\ futures' = [futures EXCEPT ![i].state = "done"]
    /\ UNCHANGED <<config, phase, resp, pages, fetches, pool, error, exc, log,
                   threads, stray>>

\* wait(futures) returns: return_when is ALL_COMPLETED, no timeout
WaitDone ==
    /\ phase = "wait"
    /\ AllFinished
    /\ phase' = "finally"
    /\ UNCHANGED <<config, resp, pages, futures, fetches, job_soup_list, pool,
                   error, exc, log, threads, stray>>

\* an exception reaches the calling thread inside the try block, between
\* two submits or in wait(futures)
Interrupt ==
    /\ phase \in {"dispatch", "wait"}
    /\ exc' = TRUE
    /\ phase' = "finally"
    /\ UNCHANGED <<config, resp, pages, futures, fetches, job_soup_list, pool,
                   error, log, threads, stray>>

\* shutdown() joins the threads of pool._threads; each of them ends when
\* it finds the queue without tasks, after the task it is running
joined ==
    \/ Registered = 0
    \/ /\ \A i \in 1..Len(futures) : futures[i].state # "queued"
       /\ BusyBy("pool") = {}

\* shutdown() returns; then the list is returned or the pending exception
\* leaves the call
Shutdown ==
    /\ phase = "finally"
    /\ joined
    /\ pool' = "shutdown"
    /\ IF exc
       THEN /\ phase' = "raised"
            /\ error' = [type |-> "KeyboardInterrupt", urls |-> <<>>,
                         at |-> "get_job_soups_from_search_result_listings"]
       ELSE /\ phase' = "returned"
            /\ UNCHANGED error
    /\ UNCHANGED <<config, resp, pages, futures, fetches, job_soup_list, exc,
                   log, threads, stray>>

\* an exception reaches the calling thread inside the finally clause:
\* before shutdown() has marked the pool as shut down, which leaves the
\* pool open, or while shutdown() joins the workers, which leaves them
\* running their tasks; the exception leaves the call, in place of one
\* that was pending
ShutdownInterrupted ==
    /\ phase = "finally"
    /\ \/ pool' = pool
       \/ pool' = IF joined THEN "shutdown" ELSE "closing"
    /\ exc' = TRUE
    /\ phase' = "raised"
    /\ error' = [type |-> "KeyboardInterrupt", urls |-> <<>>,
                 at |-> "get_job_soups_from_search_result_listings"]
    /\ UNCHANGED <<config, resp, pages, futures, fetches, job_soup_list, log,
                   threads, stray>>

-----------------------------------------------------------------------------
(* Listing fragments and get()                                             *)
(* A text is the sequence of its pieces, " " being white space; an element *)
(* that find() does not locate is <<>>, a located one is <<text>>.         *)

None == "None"

RECURSIVE lstrip(_)
lstrip(t) == IF Len(t) > 0 /\ Head(t) = " " THEN lstrip(Tail(t)) ELSE t

RECURSIVE rstrip(_)
rstrip(t) ==
    IF Len(t) > 0 /\ t[Len(t)] = " " THEN rstrip(SubSeq(t, 1, Len(t) - 1)) ELSE t

\* str.strip()
strip(t) == rstrip(lstrip(t))

\* str.lower() on the pieces the model uses
lower(t) ==
    [i \in 1..Len(t) |->
        CASE t[i] = "Remote"      -> "remote"
          [] t[i] = "Temporarily" -> "temporarily"
          [] t[i] = "Hybrid"      -> "hybrid"
          [] OTHER                -> t[i]]

REMOTENESS_STR_MAP ==
    [k \in {<<"remote">>, <<"temporarily", " ", "remote">>} |->
        IF k = <<"remote">> THEN "FULLY_REMOTE" ELSE "TEMPORARILY_REMOTE"]

\* ID_REGEX.findall(str(anchor)): the anchor's id attribute is <<prefix, rest>>
id_regex_findall(anchor) ==
    IF anchor # <<>> /\ anchor[1][1] = "sj_" THEN <<anchor[1][2]>> ELSE <<>>

\* calc_post_date_from_relative_str (jobfunnel.backend.tools.tools)
calc_post_date_from_relative_str(t) ==
    CASE t = <<"today">>               -> [ok |-> TRUE, val |-> 0]
      [] t = <<"3", " ", "days", " ", "ago">> -> [ok |-> TRUE, val |-> 3]
      [] OTHER -> [ok |-> FALSE, val |-> "DateParseError"]

Ok(v)   == [ok |-> TRUE, val |-> v]
Err(e)  == [ok |-> FALSE, val |-> e]

\* .text.strip() of a located element, AttributeError on None
text_strip(el) == IF el = <<>> THEN Err("AttributeError") ELSE Ok(strip(el[1]))

get(parameter, soup) ==
    CASE parameter = "TITLE"    -> text_strip(soup.title)
      [] parameter = "COMPANY"  -> text_strip(soup.company)
      [] parameter = "LOCATION" -> text_strip(soup.location)
      [] parameter = "TAGS" ->
            IF soup.tags # <<>>
            THEN Ok([i \in 1..Len(soup.tags[1]) |-> strip(soup.tags[1][i])])
            ELSE Ok(<<>>)
      [] parameter = "REMOTENESS" ->
            IF soup.remote # <<>>
                 /\ lower(strip(soup.remote[1])) \in DOMAIN REMOTENESS_STR_MAP
            THEN Ok(REMOTENESS_STR_MAP[lower(strip(soup.remote[1]))])
            ELSE Ok("UNKNOWN")
      [] parameter = "WAGE" ->
            IF soup.wage # <<>> THEN Ok(strip(soup.wage[1])) ELSE Ok(<<>>)
      [] parameter = "POST_DATE" ->
            IF soup.date = <<>> THEN Err("AttributeError")
            ELSE calc_post_date_from_relative_str(strip(soup.date[1]))
      [] parameter = "KEY_ID" ->
            IF id_regex_findall(soup.link) = <<>> THEN Err("IndexError")
            ELSE Ok(id_regex_findall(soup.link)[1])
      [] OTHER -> Err("NotImplementedError")

FullSoup ==
    [ title |-> << <<" ", "Data", " ", "Engineer", " ">> >>,
      company |-> << <<"Acme", " ">> >>,
      location |-> << <<"Toronto">> >>,
      tags |-> << << <<" ", "Urgent">>, <<"New", " ">> >> >>,
      remote |-> << <<" ", "Remote", " ">> >>,
      wage |-> << <<"$50", " ">> >>,
      date |-> << <<" ", "3", " ", "days", " ", "ago">> >>,
      link |-> << <<"sj_", "abc123">> >> ]

Soups ==
    { FullSoup,
      [FullSoup EXCEPT !.tags = <<>>, !.remote = <<>>, !.wage = <<>>,
                       !.date = << <<"today">> >>,
                       !.link = << <<"sj_", "xyz789">> >>],
      [FullSoup EXCEPT !.remote = << <<"Temporarily", " ", "Remote">> >>,
                       !.link = << <<"sj_", "">> >>],
      [FullSoup EXCEPT !.remote = << <<"Hybrid">> >>, !.link = << <<"jl_", "q1">> >>],
      [FullSoup EXCEPT !.link = <<>>] }

-----------------------------------------------------------------------------
(* Job records and set() *)

DefaultJob ==
    [ title |-> <<>>, company |-> <<>>, location |-> <<>>,
      tags |-> <<>>, remoteness |-> "UNKNOWN", wage |-> <<>>, post_date |-> 0,
      key_id |-> None, url |-> <<>>, raw |-> <<>>, description |-> <<>> ]

\* truth value of job.key_id
truthy(v) == v # None /\ v # ""

detail_url(domain, key_id) ==
    <<"http://www.indeed.", domain, "/viewjob?jk=", key_id>>

\* What the session answers to the detail-page request
DetailResponses ==
    { [kind |-> "error", desc |-> <<>>],
      [kind |-> "page", desc |-> <<>>],
      [kind |-> "page", desc |-> << <<" ", "Build", " ", "pipelines", " ">> >>] }

Result(j, o, r) == [job |-> j, outcome |-> o, req |-> r]

\* the request of JobField.RAW: session.get(job.url), whatever job.url holds
raw_request(job) == <<job.url>>

\* JobField.RAW: the whole call, request and answer
set_raw(job, response) ==
    IF response.kind = "error"
    THEN Result(job, "ConnectionError", raw_request(job))
    ELSE Result([job EXCEPT !.raw = <<[url |-> job.url, desc |-> response.desc]>>],
                "ok", raw_request(job))

\* variant: no assert, str() of whatever find() gave
set_description_unchecked(job) ==
    IF job.raw = <<>> \/ job.raw[1].desc = <<>>
    THEN Result([job EXCEPT !.description = <<"None">>], "ok", <<>>)
    ELSE Result([job EXCEPT !.description = strip(job.raw[1].desc[1])], "ok", <<>>)

\* JobField.DESCRIPTION
set_description(job) ==
    IF job.raw = <<>> THEN Result(job, "AssertionError", <<>>)
    ELSE IF job.raw[1].desc = <<>> THEN Result(job, "AttributeError", <<>>)
    ELSE Result([job EXCEPT !.description = strip(job.raw[1].desc[1])], "ok", <<>>)

\* variant: no assert on job.key_id
set_url_unchecked(job, domain) ==
    Result([job EXCEPT !.url = detail_url(domain, job.key_id)], "ok", <<>>)

\* JobField.URL
set_url(job, domain) ==
    IF ~truthy(job.key_id) THEN Result(job, "AssertionError", <<>>)
    ELSE Result([job EXCEPT !.url = detail_url(domain, job.key_id)], "ok", <<>>)

set(parameter, job, domain, response) ==
    CASE parameter = "RAW"         -> set_raw(job, response)
      [] parameter = "DESCRIPTION" -> set_description(job)
      [] parameter = "URL"         -> set_url(job, domain)
      [] OTHER -> Result(job, "NotImplementedError", <<>>)

-----------------------------------------------------------------------------
(* The calls made on job records *)

\* the record whose fields are set, and a second record
JobIds == {1, 2}

job_get_fields ==
    <<"TITLE", "COMPANY", "LOCATION", "KEY_ID", "TAGS", "POST_DATE",
      "REMOTENESS", "WAGE">>

job_set_fields == <<"RAW", "URL", "DESCRIPTION">>

delayed_get_set_fields == <<"RAW">>

high_priority_get_set_fields == <<"URL">>

Elems(seq) == {seq[i] : i \in 1..Len(seq)}

NoCall == [id |-> 0, field |-> "", pre |-> DefaultJob, nreq |-> 0,
           outcome |-> ""]

Call(is_get, field, outcome) ==
    [is_get |-> is_get, field |-> field, outcome |-> outcome,
     delayed |-> field \in Elems(delayed_get_set_fields)]

JobConfigs == ConfigsOf({"ca", "com"}, {12}, {"ANY"})

NotWaiting == [on |-> FALSE, nreq |-> 0]
NoResponse == [kind |-> "none", desc |-> <<>>]

\* self.set(field, job, soup) on record j, for a field set without a
\* request: DESCRIPTION or URL
DoSet(j, job, field) ==
    LET r == set(field, job, config.domain, NoResponse)
    IN  /\ field # "RAW"
        /\ jobs' = [jobs EXCEPT ![j] = r.job]
        /\ last' = [id |-> j, field |-> field, pre |-> job,
                    nreq |-> Len(requests), outcome |-> r.outcome]
        /\ trace' = [trace EXCEPT ![j] = Append(@, Call(FALSE, field, r.outcome))]
        /\ UNCHANGED <<requests, waiting>>

\* self.set(RAW, job, soup) on record j, first half: job.url is handed to
\* session.get and the calling thread waits for the answer
RawRequest(j, job) ==
    /\ requests' = requests \o raw_request(job)
    /\ jobs' = [jobs EXCEPT ![j] = job]
    /\ waiting' = [waiting EXCEPT ![j] = [on |-> TRUE, nreq |-> Len(requests)]]
    /\ UNCHANGED <<last, trace>>

\* self.set(RAW, job, soup) on record j, second half: the session answers
\* or raises, and the parsed answer is stored
RawAnswer(j) ==
    /\ waiting[j].on
    /\ \E response \in DetailResponses :
         LET r == set("RAW", jobs[j], config.domain, response)
         IN  /\ jobs' = [jobs EXCEPT ![j] = r.job]
             /\ last' = [id |-> j, field |-> "RAW", pre |-> jobs[j],
                         nreq |-> waiting[j].nreq, outcome |-> r.outcome]
             /\ trace' = [trace EXCEPT ![j] =
                             Append(@, Call(FALSE, "RAW", r.outcome))]
    /\ waiting' = [waiting EXCEPT ![j] = NotWaiting]
    /\ UNCHANGED requests

\* a caller sets a field of a record it holds
CallSet(j, field) ==
    /\ ~waiting[j].on
    /\ Len(trace[j]) < MaxCalls
    /\ IF field = "RAW" THEN RawRequest(j, jobs[j])
                        ELSE DoSet(j, jobs[j], field)

\* the record's key_id is filled in after construction
AssignKeyId(j) ==
    /\ jobs[j].key_id = None
    /\ \E soup \in Soups :
         /\ get("KEY_ID", soup).ok
         /\ jobs' = [jobs EXCEPT ![j].key_id = get("KEY_ID", soup).val]
    /\ ~waiting[j].on
    /\ UNCHANGED <<trace, requests, last, waiting>>

-----------------------------------------------------------------------------
(* Calls of the two pure functions *)

Radii      == (0 - MinRadius) .. MaxRadius
NotCalled  == 0 - 1   \* no result yet
Variants   == {"generic", "FR", "DE"}

InitRadius ==
    /\ qArg1 \in Radii /\ qArg2 \in Radii
    /\ qRes1 = NotCalled /\ qRes2 = NotCalled

QuantizeFirst ==
    /\ qRes1 = NotCalled
    /\ qRes1' = quantize_radius(qArg1)
    /\ UNCHANGED <<qArg1, qArg2, qRes2>>

QuantizeSecond ==
    /\ qRes2 = NotCalled
    /\ qRes2' = quantize_radius(qArg2)
    /\ UNCHANGED <<qArg1, qArg2, qRes1>>

InitPages ==
    /\ pgVariant \in Variants
    /\ pgNumRes \in 0..MaxNumRes
    /\ pgMaxPages \in 0..MaxMaxPages
    /\ pgResult = NotCalled

GetNumPagesGeneric ==
    /\ pgVariant = "generic" /\ pgResult = NotCalled
    /\ pgResult' = num_pages(pgNumRes, pgMaxPages)
    /\ UNCHANGED <<pgVariant, pgNumRes, pgMaxPages>>

GetNumPagesFR ==
    /\ pgVariant = "FR" /\ pgResult = NotCalled
    /\ pgResult' = num_pages_FR(pgNumRes, pgMaxPages)
    /\ UNCHANGED <<pgVariant, pgNumRes, pgMaxPages>>

GetNumPagesDE ==
    /\ pgVariant = "DE" /\ pgResult = NotCalled
    /\ pgResult' = num_pages_DE(pgNumRes, pgMaxPages)
    /\ UNCHANGED <<pgVariant, pgNumRes, pgMaxPages>>

-----------------------------------------------------------------------------
(* Specifications *)

IdleScrape ==
    /\ phase = "idle" /\ resp = NoResp /\ pages = 0 /\ futures = <<>>
    /\ fetches = <<>> /\ job_soup_list = <<>> /\ pool = "none"
    /\ error = NoError /\ exc = FALSE /\ log = <<>>
    /\ threads = 0 /\ stray = FALSE

IdleRadius ==
    /\ qArg1 = 0 /\ qArg2 = 0 /\ qRes1 = NotCalled /\ qRes2 = NotCalled

IdlePages ==
    /\ pgVariant = "generic" /\ pgNumRes = 0 /\ pgMaxPages = 0
    /\ pgResult = NotCalled

IdleJobs ==
    /\ jobs = [j \in JobIds |-> DefaultJob]
    /\ trace = [j \in JobIds |-> <<>>]
    /\ requests = <<>>
    /\ last = NoCall
    /\ waiting = [j \in JobIds |-> NotWaiting]

\* one scrape of the result pages
Init == InitScrape /\ IdleRadius /\ IdlePages /\ IdleJobs

Next ==
    \/ (BaseFetchFails /\ UNCHANGED <<radiusVars, pagesVars, jobVars>>)
    \/ (BaseNoSummary /\ UNCHANGED <<radiusVars, pagesVars, jobVars>>)
    \/ (BaseSummary /\ UNCHANGED <<radiusVars, pagesVars, jobVars>>)
    \/ (Submit /\ UNCHANGED <<radiusVars, pagesVars, jobVars>>)
    \/ (SubmitInterrupted /\ UNCHANGED <<radiusVars, pagesVars, jobVars>>)
    \/ (BeginWait /\ UNCHANGED <<radiusVars, pagesVars, jobVars>>)
    \/ \E i \in 1..Len(futures) :
         (TaskTake(i) /\ UNCHANGED <<radiusVars, pagesVars, jobVars>>)
    \/ \E i \in 1..Len(futures) :
         (TaskRequest(i) /\ UNCHANGED <<radiusVars, pagesVars, jobVars>>)
    \/ \E i \in 1..Len(futures) :
         (TaskResponse(i) /\ UNCHANGED <<radiusVars, pagesVars, jobVars>>)
    \/ \E i \in 1..Len(futures) :
         (TaskFail(i) /\ UNCHANGED <<radiusVars, pagesVars, jobVars>>)
    \/ \E i \in 1..Len(futures) :
         (TaskExtend(i) /\ UNCHANGED <<radiusVars, pagesVars, jobVars>>)
    \/ (WaitDone /\ UNCHANGED <<radiusVars, pagesVars, jobVars>>)
    \/ (Interrupt /\ UNCHANGED <<radiusVars, pagesVars, jobVars>>)
    \/ (Shutdown /\ UNCHANGED <<radiusVars, pagesVars, jobVars>>)
    \/ (ShutdownInterrupted /\ UNCHANGED <<radiusVars, pagesVars, jobVars>>)

Spec == Init /\ [][Next]_vars

\* calls of _quantize_radius
InitR == InitRadius /\ config \in JobConfigs /\ IdleScrape /\ IdlePages /\ IdleJobs

NextR ==
    \/ (QuantizeFirst /\ UNCHANGED <<scrapeVars, pagesVars, jobVars>>)
    \/ (QuantizeSecond /\ UNCHANGED <<scrapeVars, pagesVars, jobVars>>)

SpecRadius == InitR /\ [][NextR]_vars

\* calls of _get_num_search_result_pages, after the total was parsed
InitP == InitPages /\ config \in JobConfigs /\ IdleScrape /\ IdleRadius /\ IdleJobs

NextP ==
    \/ (GetNumPagesGeneric /\ UNCHANGED <<scrapeVars, radiusVars, jobVars>>)
    \/ (GetNumPagesFR /\ UNCHANGED <<scrapeVars, radiusVars, jobVars>>)
    \/ (GetNumPagesDE /\ UNCHANGED <<scrapeVars, radiusVars, jobVars>>)

SpecPages == InitP /\ [][NextP]_vars

\* set() called on one record in any order, any number of times up to
\* MaxCalls, while the detail page of each other record is fetched once
InitS ==
    /\ config \in JobConfigs /\ IdleScrape /\ IdleRadius /\ IdlePages
    /\ trace = [j \in JobIds |-> <<>>]
    /\ requests = <<>>
    /\ last = NoCall
    /\ waiting = [j \in JobIds |-> NotWaiting]
    /\ \E k \in {None, "", "abc123"} :
         jobs = [j \in JobIds |->
                   IF j = 1 THEN [DefaultJob EXCEPT !.key_id = k]
                   ELSE DefaultJob]

NextS ==
    \/ \E f \in Elems(job_set_fields) :
         (CallSet(1, f) /\ UNCHANGED <<scrapeVars, radiusVars, pagesVars>>)
    \/ (AssignKeyId(1) /\ UNCHANGED <<scrapeVars, radiusVars, pagesVars>>)
    \/ \E j \in JobIds \ {1} :
         (/\ trace[j] = <<>>
          /\ CallSet(j, "RAW")
          /\ UNCHANGED <<scrapeVars, radiusVars, pagesVars>>)
    \/ \E j \in JobIds :
         (RawAnswer(j) /\ UNCHANGED <<scrapeVars, radiusVars, pagesVars>>)

SpecSet == InitS /\ [][NextS]_vars

-----------------------------------------------------------------------------
(* Properties *)

Count(seq, x) == Cardinality({i \in 1..Len(seq) : seq[i] = x})

RECURSIVE DoneFrags(_)
\* number of listings found by the first i tasks that ran to completion
DoneFrags(i) ==
    IF i = 0 THEN 0
    ELSE DoneFrags(i - 1)
         + (IF futures[i].state = "done" THEN futures[i].n ELSE 0)

\* the listings the site served to task i
FragsOf(i) == find_all(page_url(search_url, futures[i].page), futures[i].n)

\* C1: whatever the interleaving of the page tasks and whatever the number
\* of listings on each page, the returned list holds every listing of every
\* fetched page exactly once, and nothing else: its length is the sum of
\* the per-page listing counts.
C1_MergedExactlyOnce ==
    phase = "returned" =>
        /\ \A i \in 1..Len(futures) :
             futures[i].state = "done" =>
                \A k \in 1..futures[i].n :
                    Count(job_soup_list, FragsOf(i)[k]) = 1
        /\ Len(job_soup_list) = DoneFrags(Len(futures))

\* more pages than workers, every page fetched with at least one listing,
\* and the list is not in page order
C1_Witness ==
    /\ phase = "returned"
    /\ Len(futures) > MAX_CPU_WORKERS
    /\ \A i \in 1..Len(futures) : futures[i].state = "done" /\ futures[i].n >= 1
    /\ job_soup_list[1].start # 0

\* least k with k * size >= total
CeilOf(total, size) ==
    CHOOSE k \in 0..total : k * size >= total /\ (k = 0 \/ (k - 1) * size < total)

MinOf(a, b) == IF a <= b THEN a ELSE b

\* C2: for every parsed total >= 0 and every max_pages >= 0 the page count
\* is ceil(total / 50) when max_pages is 0 and min(ceil(total / 50),
\* max_pages) otherwise, in the generic, FR and DE variants alike.
C2_PageCount ==
    pgResult # NotCalled =>
        pgResult = IF pgMaxPages = 0 THEN CeilOf(pgNumRes, 50)
                   ELSE MinOf(CeilOf(pgNumRes, 50), pgMaxPages)

C2_Witness ==
    /\ pgVariant = "DE" /\ pgNumRes = 151 /\ pgMaxPages = 3 /\ pgResult = 3

\* the half-open intervals of the radius table: <<low, high, value>>,
\* the last one unbounded
RadiusTable ==
    << <<0, 5, 0>>, <<5, 10, 5>>, <<10, 15, 10>>, <<15, 25, 15>>,
       <<25, 50, 25>>, <<50, 100, 50>> >>

TableValue(r) ==
    IF r >= 100 THEN 100
    ELSE LET e == CHOOSE e \in Elems(RadiusTable) : e[1] <= r /\ r < e[2]
         IN  e[3]

\* C3: every quantized radius is one of 0, 5, 10, 15, 25, 50, 100, the
\* function is non-decreasing, and for a radius >= 0 the value is the one
\* the half-open intervals give; negative and large radii included.
C3_QuantizeRadius ==
    /\ qRes1 # NotCalled =>
          /\ qRes1 \in {0, 5, 10, 15, 25, 50, 100}
          /\ qArg1 >= 0 => qRes1 = TableValue(qArg1)
    /\ qRes2 # NotCalled =>
          /\ qRes2 \in {0, 5, 10, 15, 25, 50, 100}
          /\ qArg2 >= 0 => qRes2 = TableValue(qArg2)
    /\ (qRes1 # NotCalled /\ qRes2 # NotCalled /\ qArg1 <= qArg2)
          => qRes1 <= qRes2

C3_Witness ==
    /\ qArg1 < 0 /\ qRes1 = 0
    /\ qArg2 > 100 /\ qRes2 = 100

\* C5: set(URL) on a record without key_id fails and leaves url unset;
\* set(DESCRIPTION) on a record without raw data fails and leaves the
\* description unset; with key_id = k, set(URL) gives
\* http://www.indeed.<domain>/viewjob?jk=<k>, the same on every call.
C5_SetPreconditions ==
    /\ (last.field = "URL" /\ last.pre.key_id \in {None, ""}) =>
          /\ last.outcome = "AssertionError"
          /\ jobs[last.id].url = <<>>
    /\ (last.field = "DESCRIPTION" /\ last.pre.raw = <<>>) =>
          /\ last.outcome = "AssertionError"
          /\ jobs[last.id].description = <<>>
    /\ (last.field = "URL" /\ last.pre.key_id \notin {None, ""}) =>
          /\ last.outcome = "ok"
          /\ jobs[last.id].url =
                <<"http://www.indeed.", config.domain, "/viewjob?jk=",
                  last.pre.key_id>>
          /\ last.pre.url # <<>> => jobs[last.id].url = last.pre.url

\* set(URL) failed on the record, key_id became abc123, set(URL) was then
\* called twice, and set(DESCRIPTION) failed for want of raw data
C5_Witness ==
    /\ Len(trace[1]) = 4
    /\ trace[1][1] = Call(FALSE, "URL", "AssertionError")
    /\ trace[1][2] = Call(FALSE, "DESCRIPTION", "AssertionError")
    /\ trace[1][3] = Call(FALSE, "URL", "ok")
    /\ trace[1][4] = Call(FALSE, "URL", "ok")
    /\ jobs[1].key_id = "abc123"
    /\ last.pre.url # <<>>

\* C6: without a results-summary node the call fails with the error that
\* carries the search URL, after exactly one fetch, that of the search
\* URL; no page task is dispatched, no pool exists, nothing is returned.
C6_NoResultsAborts ==
    resp.kind = "no_summary" =>
        /\ phase = "raised"
        /\ error.type = "ValueError"
        /\ error.urls = <<search_url>>
        /\ fetches = <<search_url>>
        /\ futures = <<>>
        /\ pool = "none"
        /\ job_soup_list = <<>>

C6_Witness == resp.kind = "no_summary" /\ phase = "raised" /\ Len(fetches) = 1

PageFetches == {fetches[k] : k \in 2..Len(fetches)}

\* C7: one task per page index 0 .. P-1, in that order and none twice;
\* each task fetches the search URL with start = page * 50, after the one
\* fetch of the search URL itself; on return every page was fetched once.
\* With radius 12 and 75 results: radius 10 in the URL, P = 2, and the
\* page fetches are start=0 and start=50.
C7_OneFetchPerPage ==
    /\ phase \notin {"init", "idle"} => fetches[1] = search_url
    /\ \A i \in 1..Len(futures) :
          futures[i].page = i - 1 /\ futures[i].page < pages
    /\ \A k \in 2..Len(fetches) :
          /\ \E p \in 0..(pages - 1) :
                fetches[k] = [search |-> search_url, start |-> p * 50]
          /\ \A m \in 2..Len(fetches) : fetches[m] = fetches[k] => m = k
    /\ phase = "returned" =>
          /\ Len(futures) = pages
          /\ PageFetches =
                {[search |-> search_url, start |-> p * 50] : p \in 0..(pages - 1)}
    /\ (phase = "returned" /\ config.radius = 12 /\ resp.total = 75) =>
          /\ search_url.radius = 10
          /\ pages = 2
          /\ {u.start : u \in PageFetches} = {0, 50}
          /\ Len(fetches) = 3

C7_Witness ==
    /\ phase = "returned" /\ config.radius = 12 /\ resp.total = 75
    /\ Len(fetches) = 3

\* C8: a page task that failed is observable when the call ends: the call
\* raises, or what it hands back carries a report of the failure.
C8_PageFailureObservable ==
    (phase = "returned" /\ \E i \in 1..Len(futures) : futures[i].state = "failed")
        => \E k \in 1..Len(log) : log[k].level \in {"warning", "error"}

ReturnedComplete ==
    phase = "returned" =>
        /\ Len(futures) = pages
        /\ AllFinished
        /\ \A i \in 1..Len(futures) :
              futures[i].state = "done" =>
                 \A k \in 1..futures[i].n :
                    \E m \in 1..Len(job_soup_list) :
                       job_soup_list[m] = FragsOf(i)[k]

\* once the pool exists, the call is left, by return or by exception,
\* only with the pool shut down and its workers joined
PoolClosedOnExit ==
    (phase \in {"returned", "raised"} /\ resp.kind = "summary")
        => pool = "shutdown"

\* C10: the call returns only when every page task has completed or
\* failed, so the returned list does not change afterwards, a failed task
\* does not keep the listings of the others out of it, and the pool is
\* shut down on the normal and on the exceptional way out.
C10_BlocksAndShutsDown ==
    /\ ReturnedComplete
    /\ PoolClosedOnExit

====
